---- MODULE Spec2Model ----
(***************************************************************************)
(* Verification model of the venice-proxy chat-completion relay.           *)
(*                                                                         *)
(* Two deployed variants of the POST /chat/completions handler are         *)
(* modelled: "relay" (the streaming handler with flushed headers and       *)
(* heartbeat, src/unnamed/part_000 lines 1-256) and "gateway" (the v3.2    *)
(* sanitising handler, src/gateway.ts lines 1-220).                        *)
(*                                                                         *)
(* JavaScript values are written as their literal text ("undefined",       *)
(* "true", "'true'", "1", "null", "{}", "[]", ...), so that every field of *)
(* a request body has one TLA+ type and `===`, typeof and truthiness are   *)
(* operators over that text.                                               *)
(***************************************************************************)
EXTENDS Naturals, Sequences, FiniteSets

VARIABLES req

vars == <<req>>

(***************************************************************************)
(* Bounds of the model.                                                    *)
(***************************************************************************)
MaxChunks == 2

MaxPings == 2

(***************************************************************************)
(* JavaScript values.                                                      *)
(***************************************************************************)
Undefined == "undefined"

FalsyVals == {"undefined", "null", "false", "0", "''"}

Falsy(v) == v \in FalsyVals

ArrayVals == {"[]", "[{role:'user',content:'hi'}]", "[1]"}

IsArray(v) == v \in ArrayVals

DEFAULT_MODEL == "'venice-uncensored'"

(***************************************************************************)
(* Request bodies as express.json() hands them to the handler.  obj is     *)
(* FALSE for a body that is not an object (null); an absent key reads as   *)
(* undefined.                                                              *)
(***************************************************************************)
JsonrpcVals == {"undefined", "'2.0'", "'1.0'"}

MethodVals == {"undefined", "'ping'"}

MessagesVals == {"undefined", "'hi'"} \cup ArrayVals

ModelVals == {"undefined", "''", "'m1'"}

StreamVals == {"undefined", "true", "false", "'true'", "1", "null", "{}"}

NullBody ==
    [obj |-> FALSE, jsonrpc |-> Undefined, method |-> Undefined,
     messages |-> Undefined, model |-> Undefined, stream |-> Undefined]

ObjectBodies ==
    [obj : {TRUE}, jsonrpc : JsonrpcVals, method : MethodVals,
     messages : MessagesVals, model : ModelVals, stream : StreamVals]

Bodies == {NullBody} \cup ObjectBodies

Headers == {"elevenlabs", "other", "undefined"}

Variants == {"relay", "gateway"}

(***************************************************************************)
(* Payload classifier.                                                     *)
(***************************************************************************)
\* Mutant: the header is only required to be present.
AuthorizedPresent(clientHeader) == clientHeader # "undefined"

Authorized(clientHeader) == clientHeader = "elevenlabs"

\* Mutant: the chat shape is looked at first.
isJsonRpcAfterChat(b) ==
    b.obj /\ b.jsonrpc = "'2.0'" /\ b.method # Undefined /\ ~IsArray(b.messages)

isJsonRpc(b) == b.obj /\ b.jsonrpc = "'2.0'" /\ b.method # Undefined

\* Mutant: a truthiness test instead of Array.isArray.
isChatPayloadTruthy(b) == b.obj /\ ~Falsy(b.messages)

isChatPayload(b) == b.obj /\ IsArray(b.messages)

(***************************************************************************)
(* Request normalisers.  maybeInjectDefaultModel mutates the body in       *)
(* place (relay); sanitizeChatBody builds a fresh three-field payload      *)
(* (gateway), which here reads as a body whose other keys are absent.      *)
(***************************************************************************)
\* Mutant: the stream key is overwritten by the outcome of the undefined
\* test instead of being defaulted.
maybeInjectDefaultModelTest(b) ==
    IF ~IsArray(b.messages)
    THEN b
    ELSE [b EXCEPT !.model = IF Falsy(@) THEN DEFAULT_MODEL ELSE @,
                   !.stream = IF @ = Undefined THEN "true" ELSE "false"]

maybeInjectDefaultModel(b) ==
    IF ~IsArray(b.messages)
    THEN b
    ELSE [b EXCEPT !.model = IF Falsy(@) THEN DEFAULT_MODEL ELSE @,
                   !.stream = IF @ = Undefined THEN "false" ELSE @]

sanitizeChatBody(b) ==
    IF ~b.obj
    THEN [NullBody EXCEPT !.obj = TRUE, !.model = DEFAULT_MODEL,
                          !.messages = "[]", !.stream = "false"]
    ELSE [NullBody EXCEPT !.obj = TRUE,
                          !.model = IF Falsy(b.model) THEN DEFAULT_MODEL ELSE b.model,
                          !.messages = IF IsArray(b.messages) THEN b.messages ELSE "[]",
                          !.stream = "false"]

isStreaming(b) == b.stream = "true"

(***************************************************************************)
(* Error mapper.  An error value carries the three places the mapper       *)
(* looks for a message (the empty string stands for an absent or empty     *)
(* one) and the upstream status (0 for a thrown error).                    *)
(***************************************************************************)
UpstreamErr(text, status) ==
    [issues |-> "", details |-> "", message |-> text, status |-> status]

ThrownErr(message) ==
    [issues |-> "", details |-> "", message |-> message, status |-> 0]

\* Mutant: the fixed fallback message is missing.
ErrMsgNoFallback(err) ==
    IF err.issues # "" THEN err.issues
    ELSE IF err.details # "" THEN err.details
    ELSE err.message

ErrMsg(err) ==
    IF err.issues # "" THEN err.issues
    ELSE IF err.details # "" THEN err.details
    ELSE IF err.message # "" THEN err.message
    ELSE "Unknown error from upstream"

mapUpstreamErrorToChatMessage(err) ==
    [kind |-> "mapped",
     error |-> "Upstream error",
     details |-> err,
     choices |-> << [index |-> 0,
                     message |-> [role |-> "assistant",
                                  content |-> "Error: " \o ErrMsg(err)],
                     finish_reason |-> "stop"] >>]

(***************************************************************************)
(* Upstream documents.  A message or choice that is absent or null is      *)
(* marked nullish; every other field holds a JavaScript value text.        *)
(***************************************************************************)
Nullish(v) == v \in {"undefined", "null"}

NoMsg == [nullish |-> TRUE, role |-> Undefined, content |-> Undefined]

Msg(role, content) == [nullish |-> FALSE, role |-> role, content |-> content]

NullChoice ==
    [type |-> "null", index |-> Undefined, finish_reason |-> Undefined,
     stop_reason |-> Undefined, message |-> NoMsg, delta |-> NoMsg]

Choice(index, finish_reason, stop_reason, message, delta) ==
    [type |-> "object", index |-> index, finish_reason |-> finish_reason,
     stop_reason |-> stop_reason, message |-> message, delta |-> delta]

NoUsage == [present |-> FALSE, prompt_tokens |-> Undefined,
            completion_tokens |-> Undefined, total_tokens |-> Undefined]

EmptyDoc ==
    [nul |-> FALSE, id |-> Undefined, object |-> Undefined, created |-> Undefined,
     model |-> Undefined, message |-> Undefined, text |-> Undefined,
     choices |-> [arr |-> FALSE, elems |-> << >>], usage |-> NoUsage]

NullDoc == [EmptyDoc EXCEPT !.nul = TRUE]

HelloDoc ==
    [EmptyDoc EXCEPT !.id = "'x'",
        !.choices = [arr |-> TRUE,
                     elems |-> << Choice(Undefined, Undefined, Undefined,
                                         Msg("'assistant'", "'hello'"), NoMsg) >>]]

ChunkDoc ==
    [EmptyDoc EXCEPT !.id = "'y'", !.object = "'chat.completion.chunk'",
        !.created = "1700000000", !.model = "'m1'",
        !.choices = [arr |-> TRUE,
                     elems |-> << Choice("1", Undefined, "'length'",
                                         NoMsg, Msg(Undefined, "0")),
                                  Choice("'a'", "'stop'", Undefined,
                                         Msg("'tool'", "{a:1}"), NoMsg) >>],
        !.usage = [present |-> TRUE, prompt_tokens |-> "3",
                   completion_tokens |-> Undefined, total_tokens |-> "7"]]

NullChoiceDoc ==
    [EmptyDoc EXCEPT !.id = "'z'",
        !.choices = [arr |-> TRUE, elems |-> << NullChoice >>]]

MessageDoc == [EmptyDoc EXCEPT !.message = "'rate limited'"]

(***************************************************************************)
(* Response sanitiser (gateway).                                           *)
(***************************************************************************)
IsString(v) == Len(v) >= 2 /\ SubSeq(v, 1, 1) = "'"

IsNumber(v) == v \in {"0", "1", "3", "7", "1700000000"}

JSONstringify(v) == "'" \o v \o "'"

Coalesce(v, d) == IF Nullish(v) THEN d ELSE v

sanitizeChoiceThrows(choice) == choice.type = "null"

sanitizeChoice(choice) ==
    LET idx == IF IsNumber(choice.index) THEN choice.index ELSE "0"
        finish_reason == Coalesce(choice.finish_reason,
                                  Coalesce(choice.stop_reason, "'stop'"))
        msg == IF ~choice.message.nullish THEN choice.message
               ELSE IF ~choice.delta.nullish THEN choice.delta
               ELSE Msg(Undefined, Undefined)
        role == Coalesce(msg.role, "'assistant'")
        content == IF IsString(msg.content) THEN msg.content
                   ELSE IF ~Falsy(msg.content) THEN JSONstringify(msg.content)
                   ELSE "''"
    IN  [index |-> idx, message |-> [role |-> role, content |-> content],
         finish_reason |-> finish_reason]

sanitizeResponseThrows(data) ==
    /\ ~data.nul
    /\ data.choices.arr
    /\ \E i \in 1..Len(data.choices.elems) :
          sanitizeChoiceThrows(data.choices.elems[i])

sanitizeResponse(data) ==
    LET d == IF data.nul THEN EmptyDoc ELSE data
        rawChoices == IF d.choices.arr THEN d.choices.elems ELSE << >>
        zero(v) == Coalesce(v, "0")
    IN  [kind |-> "clean",
         id |-> Coalesce(d.id, "'chatcmpl-<now>'"),
         object |-> Coalesce(d.object, "'chat.completion'"),
         created |-> Coalesce(d.created, "<now/1000>"),
         model |-> Coalesce(d.model, DEFAULT_MODEL),
         choices |-> [i \in 1..Len(rawChoices) |-> sanitizeChoice(rawChoices[i])],
         usage |-> IF d.usage.present
                   THEN [present |-> TRUE,
                         prompt_tokens |-> zero(d.usage.prompt_tokens),
                         completion_tokens |-> zero(d.usage.completion_tokens),
                         total_tokens |-> zero(d.usage.total_tokens)]
                   ELSE NoUsage]

(***************************************************************************)
(* What the upstream may answer: the body text, whether JSON.parse accepts *)
(* it, and the value it parses to.                                         *)
(***************************************************************************)
UpstreamBody(raw, json, doc) == [raw |-> raw, json |-> json, doc |-> doc]

NoBody == UpstreamBody("", FALSE, EmptyDoc)

UpstreamBodies ==
    { NoBody,
      UpstreamBody("rate limited", FALSE, EmptyDoc),
      UpstreamBody("{\"message\":\"rate limited\"}", TRUE, MessageDoc),
      UpstreamBody("{}", TRUE, EmptyDoc),
      UpstreamBody("null", TRUE, NullDoc),
      UpstreamBody("{\"id\":\"x\",...}", TRUE, HelloDoc),
      UpstreamBody("{\"id\":\"y\",...}", TRUE, ChunkDoc),
      UpstreamBody("{\"id\":\"z\",\"choices\":[null]}", TRUE, NullChoiceDoc) }

OkStatuses == {200}

ErrStatuses == {429, 500}

IsOk(status) == status >= 200 /\ status <= 299

(***************************************************************************)
(* Per-request state.  pc is the handler's position: "start" (parsed, not  *)
(* yet handled), an await point ("docFetch", "docText", "docJson",         *)
(* "strFetch", "strText") or "returned".  up is the outbound call:         *)
(* "none", "pending", "headers" (answered, body being read), "open" (body  *)
(* stream piped to the caller), "ended", "errored", "nobody", "failed",    *)
(* "aborted" or "done".  written is the sequence of res.write calls, each  *)
(* with the state of the caller connection at the call.                    *)
(***************************************************************************)
Reqs == {"r1", "r2"}

NoJson == [kind |-> "none"]

NewReq(variant, header, body) ==
    [variant |-> variant, header |-> header, body |-> body, pc |-> "start",
     fwd |-> NullBody, outbound |-> 0, signal |-> FALSE, aborted |-> FALSE,
     up |-> "none", upStatus |-> 0, upBody |-> NoBody, upLog |-> << >>,
     status |-> 0, headersSent |-> FALSE, json |-> NoJson, written |-> << >>,
     ended |-> FALSE, clientClosed |-> FALSE, heartbeat |-> FALSE, pings |-> 0,
     listening |-> FALSE, resCloseFired |-> FALSE]

Absent == [NewReq("relay", "undefined", NullBody) EXCEPT !.pc = "absent"]

(***************************************************************************)
(* The caller's response object.                                           *)
(***************************************************************************)
ConnState(s) ==
    IF s.clientClosed THEN "closed" ELSE IF s.ended THEN "ended" ELSE "open"

Frame(kind, status, data) ==
    [kind |-> kind, idx |-> 0, fin |-> TRUE, status |-> status, data |-> data]

DataFrame(idx, fin) ==
    [kind |-> "data", idx |-> idx, fin |-> fin, status |-> 0, data |-> ""]

resWrite(s, frame) ==
    [s EXCEPT !.written = Append(@, [frame |-> frame, conn |-> ConnState(s)])]

resEnd(s) == [s EXCEPT !.ended = TRUE]

resStatusJson(s, status, json) ==
    [s EXCEPT !.status = status, !.json = json, !.headersSent = TRUE,
              !.ended = TRUE]

TerminalFrame == Frame("end", 0, "[DONE]")

(***************************************************************************)
(* Document path of the handlers.                                          *)
(***************************************************************************)
Reject(s, status, kind) ==
    [resStatusJson(s, status, [kind |-> kind]) EXCEPT !.pc = "returned"]

DocFetch(s) ==
    [s EXCEPT !.outbound = @ + 1, !.signal = FALSE, !.up = "pending",
              !.pc = "docFetch"]

\* Mutant: every upstream failure is reported as 502.
DocNotOkAs502(s, text) ==
    [resStatusJson(s, 502,
                   mapUpstreamErrorToChatMessage(UpstreamErr(text, s.upStatus)))
       EXCEPT !.pc = "returned", !.up = "done"]

DocNotOk(s, text) ==
    [resStatusJson(s, s.upStatus,
                   mapUpstreamErrorToChatMessage(UpstreamErr(text, s.upStatus)))
       EXCEPT !.pc = "returned", !.up = "done"]

\* Mutant: a failed call is retried once before the error is reported.
DocCatchRetry(s, err) ==
    IF s.outbound < 2 /\ ~s.headersSent
    THEN DocFetch(s)
    ELSE LET t == [s EXCEPT !.pc = "returned"]
         IN  IF ~t.headersSent
             THEN resStatusJson(t, 502, mapUpstreamErrorToChatMessage(err))
             ELSE t

DocCatch(s, err) ==
    LET t == [s EXCEPT !.pc = "returned"]
    IN  IF ~t.headersSent
        THEN resStatusJson(t, 502, mapUpstreamErrorToChatMessage(err))
        ELSE t

RelayDocJson(s, ub) ==
    IF ub.json
    THEN [resStatusJson(s, s.upStatus, [kind |-> "doc", doc |-> ub.doc])
            EXCEPT !.pc = "returned", !.up = "done"]
    ELSE DocCatch([s EXCEPT !.up = "done"],
                  ThrownErr("invalid json response body"))

GatewayDocText(s, ub) ==
    LET rawData == IF ub.json THEN ub.doc ELSE [EmptyDoc EXCEPT !.text = ub.raw]
    IN  IF ~IsOk(s.upStatus)
        THEN DocNotOk(s, ub.raw)
        ELSE IF sanitizeResponseThrows(rawData)
        THEN DocCatch([s EXCEPT !.up = "done"],
                      ThrownErr("Cannot read properties of null (reading 'index')"))
        ELSE [resStatusJson(s, 200, sanitizeResponse(rawData))
                EXCEPT !.pc = "returned", !.up = "done"]

(***************************************************************************)
(* Streaming relay: streamFromVenice up to its first await, and the        *)
(* continuations and listeners that run after it.                          *)
(***************************************************************************)
\* Mutant: the upstream call is issued first; nothing is sent to the caller
\* until it resolves.
streamFromVeniceOpenLate(s) ==
    [s EXCEPT !.heartbeat = TRUE, !.listening = TRUE,
              !.outbound = @ + 1, !.signal = TRUE, !.up = "pending",
              !.pc = "strFetch"]

streamFromVeniceOpen(s) ==
    LET opened == resWrite([s EXCEPT !.status = 200, !.headersSent = TRUE],
                           Frame("connected", 0, ""))
    IN  [opened EXCEPT !.heartbeat = TRUE, !.listening = TRUE,
                       !.outbound = @ + 1, !.signal = TRUE, !.up = "pending",
                       !.pc = "strFetch"]

StreamFetchFailed(s, message) ==
    [resWrite(s, Frame("error", 0,
                       IF message # "" THEN message ELSE "upstream fetch error"))
       EXCEPT !.pc = "returned", !.up = "failed"]

\* Mutant: the non-OK branch ends the response without a terminal frame.
StreamNotOkNoTerminal(s, text) ==
    [resEnd(resWrite(s, Frame("error", s.upStatus, text)))
       EXCEPT !.pc = "returned"]

StreamNotOk(s, text) ==
    LET e == resWrite(s, Frame("error", s.upStatus, text))
        d == resWrite(e, TerminalFrame)
    IN  [resEnd(d) EXCEPT !.pc = "returned"]

StreamNoBody(s) ==
    [resEnd(resWrite(s, Frame("error", 0, "no upstream body")))
       EXCEPT !.pc = "returned", !.up = "nobody"]

StreamPipe(s) == [s EXCEPT !.pc = "returned", !.up = "open"]

\* Mutant: after a mid-flight error the relay goes back to waiting for the
\* upstream instead of closing.
onUpstreamErrorReopens(s) ==
    [resWrite(s, Frame("error", 0, "upstream stream error"))
       EXCEPT !.up = "pending", !.pc = "strFetch"]

onUpstreamError(s) ==
    resEnd(resWrite(s, Frame("error", 0, "upstream stream error")))

\* Mutant: the end listener leaves the heartbeat timer armed.
onUpstreamEndKeepsTimer(s) == resEnd(resWrite(s, TerminalFrame))

onUpstreamEnd(s) ==
    [resEnd(resWrite(s, TerminalFrame)) EXCEPT !.heartbeat = FALSE]

\* Mutant: every relayed chunk is written as a complete event frame.
onUpstreamDataReframed(s, fin) ==
    LET chunk == DataFrame(Len(s.upLog) + 1, fin)
    IN  resWrite([s EXCEPT !.upLog = Append(@, chunk)],
                 DataFrame(Len(s.upLog) + 1, TRUE))

onUpstreamData(s, fin) ==
    LET chunk == DataFrame(Len(s.upLog) + 1, fin)
    IN  resWrite([s EXCEPT !.upLog = Append(@, chunk)], chunk)

heartbeatTick(s) == resWrite([s EXCEPT !.pings = @ + 1], Frame("ping", 0, ""))

(***************************************************************************)
(* controller.abort(): the first call rejects a pending fetch with an      *)
(* AbortError (the relay returns), fails a body that is being read (the    *)
(* text read resolves to '' and the non-OK continuation runs) or emits     *)
(* 'error' on an open body stream; later calls do nothing.                 *)
(***************************************************************************)
\* Mutant: aborting does not reject a fetch that is still pending.
controllerAbortKeepsPending(s) ==
    IF s.aborted
    THEN s
    ELSE LET t == [s EXCEPT !.aborted = TRUE]
         IN  IF ~s.signal THEN t
             ELSE IF s.up = "headers" /\ s.pc = "strText"
             THEN StreamNotOk([t EXCEPT !.up = "aborted"], "")
             ELSE IF s.up = "open"
             THEN onUpstreamError([t EXCEPT !.up = "aborted"])
             ELSE t

controllerAbort(s) ==
    IF s.aborted
    THEN s
    ELSE LET t == [s EXCEPT !.aborted = TRUE]
         IN  IF ~s.signal THEN t
             ELSE IF s.up = "pending"
             THEN [t EXCEPT !.up = "aborted", !.pc = "returned"]
             ELSE IF s.up = "headers" /\ s.pc = "strText"
             THEN StreamNotOk([t EXCEPT !.up = "aborted"], "")
             ELSE IF s.up = "open"
             THEN onUpstreamError([t EXCEPT !.up = "aborted"])
             ELSE t

\* Mutant: the close handler also finishes the stream itself.
onClientCloseTerminates(s) ==
    [resEnd(resWrite(controllerAbort(s), TerminalFrame)) EXCEPT !.heartbeat = FALSE]

onClientClose(s) == [controllerAbort(s) EXCEPT !.heartbeat = FALSE]

(***************************************************************************)
(* The POST /chat/completions handlers up to their first await.            *)
(***************************************************************************)
\* Mutant: the handler tests the chat shape before the RPC shape.
HandleRelayChatFirst(s) ==
    IF ~Authorized(s.header) THEN Reject(s, 403, "authError")
    ELSE IF isChatPayload(s.body)
    THEN LET b == maybeInjectDefaultModel(s.body)
         IN  IF isStreaming(b)
             THEN streamFromVeniceOpen([s EXCEPT !.fwd = b])
             ELSE DocFetch([s EXCEPT !.fwd = b])
    ELSE IF isJsonRpc(s.body) THEN Reject(s, 400, "rpcError")
    ELSE Reject(s, 400, "invalidError")

HandleRelay(s) ==
    IF ~Authorized(s.header) THEN Reject(s, 403, "authError")
    ELSE IF isJsonRpc(s.body) THEN Reject(s, 400, "rpcError")
    ELSE IF ~isChatPayload(s.body) THEN Reject(s, 400, "invalidError")
    ELSE LET b == maybeInjectDefaultModel(s.body)
         IN  IF isStreaming(b)
             THEN streamFromVeniceOpen([s EXCEPT !.fwd = b])
             ELSE DocFetch([s EXCEPT !.fwd = b])

HandleGateway(s) ==
    IF ~Authorized(s.header) THEN Reject(s, 403, "authError")
    ELSE IF isJsonRpc(s.body) THEN Reject(s, 400, "rpcError")
    ELSE IF ~isChatPayload(s.body) THEN Reject(s, 400, "invalidError")
    ELSE DocFetch([s EXCEPT !.fwd = sanitizeChatBody(s.body)])

(***************************************************************************)
(* Actions.  Each is one run of the event loop for request r: the handler  *)
(* or continuation that runs, with the listeners it triggers.              *)
(***************************************************************************)
\* Mutant: one heartbeat timer is shared by all requests, so releasing it
\* for one request releases it for the others.
StepSharedTimer(r, next) ==
    req' = [q \in Reqs |->
              IF q = r THEN next
              ELSE [req[q] EXCEPT !.heartbeat = @ /\ (req[r].heartbeat => next.heartbeat)]]

Step(r, next) == req' = [req EXCEPT ![r] = next]

Handle(r) ==
    /\ req[r].pc = "start"
    /\ Step(r, IF req[r].variant = "relay"
               THEN HandleRelay(req[r])
               ELSE HandleGateway(req[r]))

\* The upstream answers the pending fetch with a status line and headers.
UpstreamRespond(r) ==
    /\ req[r].up = "pending"
    /\ \E status \in OkStatuses \cup ErrStatuses, hasBody \in BOOLEAN :
          LET s == [req[r] EXCEPT !.up = "headers", !.upStatus = status]
          IN  \/ /\ s.pc = "docFetch"
                 /\ hasBody
                 /\ Step(r, [s EXCEPT !.pc =
                               IF s.variant = "relay" /\ IsOk(status)
                               THEN "docJson" ELSE "docText"])
              \/ /\ s.pc = "strFetch"
                 /\ ~IsOk(status)
                 /\ hasBody
                 /\ Step(r, [s EXCEPT !.pc = "strText"])
              \/ /\ s.pc = "strFetch"
                 /\ IsOk(status)
                 /\ Step(r, IF hasBody THEN StreamPipe(s) ELSE StreamNoBody(s))

\* The fetch rejects with a transport error (connection refused, DNS).
UpstreamFail(r) ==
    /\ req[r].up = "pending"
    /\ LET s == [req[r] EXCEPT !.up = "failed"]
           message == "request to upstream failed"
       IN  \/ /\ s.pc = "docFetch"
              /\ Step(r, DocCatch(s, ThrownErr(message)))
           \/ /\ s.pc = "strFetch"
              /\ Step(r, StreamFetchFailed(s, message))

\* The body of an answered call has been read (or its read has failed,
\* which safeReadText turns into the empty text).
BodyRead(r) ==
    /\ req[r].up = "headers"
    /\ \E ub \in UpstreamBodies :
          LET s == [req[r] EXCEPT !.upBody = ub]
          IN  \/ /\ s.pc = "docText"
                 /\ s.variant = "relay"
                 /\ Step(r, DocNotOk(s, ub.raw))
              \/ /\ s.pc = "docText"
                 /\ s.variant = "gateway"
                 /\ Step(r, GatewayDocText(s, ub))
              \/ /\ s.pc = "docJson"
                 /\ Step(r, RelayDocJson(s, ub))
              \/ /\ s.pc = "strText"
                 /\ Step(r, [StreamNotOk(s, ub.raw) EXCEPT !.up = "done"])

UpstreamData(r) ==
    /\ req[r].up = "open"
    /\ Len(req[r].upLog) < MaxChunks
    /\ \E fin \in BOOLEAN : Step(r, onUpstreamData(req[r], fin))

UpstreamEnd(r) ==
    /\ req[r].up = "open"
    /\ Step(r, onUpstreamEnd([req[r] EXCEPT !.up = "ended"]))

UpstreamError(r) ==
    /\ req[r].up = "open"
    /\ Step(r, onUpstreamError([req[r] EXCEPT !.up = "errored"]))

HeartbeatTick(r) ==
    /\ req[r].heartbeat
    /\ req[r].pings < MaxPings
    /\ Step(r, heartbeatTick(req[r]))

\* The caller disconnects; req emits 'close'.
ClientDisconnect(r) ==
    /\ req[r].pc \notin {"absent", "start"}
    /\ ~req[r].clientClosed
    /\ ~req[r].ended
    /\ LET s == [req[r] EXCEPT !.clientClosed = TRUE]
       IN  Step(r, IF s.listening THEN onClientClose(s) ELSE s)

\* res emits 'close' once the response has ended or the caller has gone.
ResClose(r) ==
    /\ req[r].listening
    /\ ~req[r].resCloseFired
    /\ req[r].clientClosed \/ req[r].ended
    /\ Step(r, onClientClose([req[r] EXCEPT !.resCloseFired = TRUE]))

(***************************************************************************)
(* Specifications.  Spec follows one request of any variant, header and    *)
(* body; PairSpec follows two concurrent streaming requests.               *)
(***************************************************************************)
Init ==
    \E v \in Variants, h \in Headers, b \in Bodies :
       req = [r \in Reqs |-> IF r = "r1" THEN NewReq(v, h, b) ELSE Absent]

PairBodies ==
    {b \in ObjectBodies : /\ b.jsonrpc = Undefined /\ b.method = Undefined
                          /\ b.messages = "[]" /\ b.model = "'m1'"
                          /\ b.stream \in {"true", "false"}}

PairInit ==
    \E b1 \in PairBodies, b2 \in PairBodies :
       req = [r \in Reqs |-> NewReq("relay", "elevenlabs",
                                    IF r = "r1" THEN b1 ELSE b2)]

Next ==
    \E r \in Reqs :
       \/ Handle(r)
       \/ UpstreamRespond(r)
       \/ UpstreamFail(r)
       \/ BodyRead(r)
       \/ UpstreamData(r)
       \/ UpstreamEnd(r)
       \/ UpstreamError(r)
       \/ HeartbeatTick(r)
       \/ ClientDisconnect(r)
       \/ ResClose(r)

Spec == Init /\ [][Next]_vars

PairSpec == PairInit /\ [][Next]_vars

\* The handler and the armed heartbeat timer are scheduled by the runtime;
\* nothing obliges the upstream or the caller to act.
FairSpec ==
    /\ Spec
    /\ \A r \in Reqs : WF_vars(Handle(r)) /\ WF_vars(HeartbeatTick(r))

\* As FairSpec, with an upstream that does answer: a pending call is
\* eventually answered or fails, a body being read is eventually read, an
\* open stream eventually ends or errors, and the runtime delivers the
\* 'close' of a response that has ended.
LiveSpec ==
    /\ FairSpec
    /\ \A r \in Reqs :
          /\ WF_vars(UpstreamRespond(r) \/ UpstreamFail(r))
          /\ WF_vars(BodyRead(r))
          /\ WF_vars(UpstreamEnd(r) \/ UpstreamError(r))
          /\ WF_vars(ResClose(r))

(***************************************************************************)
(* Vocabulary of the properties.  The request shapes are stated here from  *)
(* the specification's wording, independently of the classifier.           *)
(***************************************************************************)
Handled(s) == s.pc \notin {"absent", "start"}

CallerOk(s) == s.header = "elevenlabs"

RpcShape(b) == b.obj /\ b.jsonrpc = "'2.0'" /\ b.method # "undefined"

ChatShape(b) == b.obj /\ b.messages \in ArrayVals

StreamMode(s) == s.listening

DocMode(s) == s.outbound > 0 /\ ~s.listening

NonSuccess(status) == status # 0 /\ (status < 200 \/ status > 299)

ErrorSchema(j) ==
    /\ j.kind = "mapped"
    /\ j.error = "Upstream error"
    /\ Len(j.choices) = 1
    /\ j.choices[1].index = 0
    /\ j.choices[1].message.role = "assistant"
    /\ j.choices[1].finish_reason = "stop"

EndFrames(s) == {i \in 1..Len(s.written) : s.written[i].frame.kind = "end"}

\* C1: a request whose caller-identity header is missing or wrong is
\* rejected with 403 before its body is looked at (whatever the body is,
\* nothing is normalised) and no outbound call is issued for it.
C1_UnauthorizedRejected ==
    \A r \in Reqs :
       (Handled(req[r]) /\ ~CallerOk(req[r])) =>
          /\ req[r].status = 403
          /\ req[r].json.kind = "authError"
          /\ req[r].outbound = 0
          /\ req[r].up = "none"
          /\ req[r].fwd = NullBody
          /\ req[r].pc = "returned"

C1_Witness ==
    \E r \in Reqs :
       /\ req[r].pc = "returned"
       /\ req[r].header = "other"
       /\ RpcShape(req[r].body)
       /\ req[r].status = 403

\* C2: an authorized request whose body has the RPC shape is answered 400
\* by the chat path and never reaches the upstream dispatcher.
C2_RpcRejected ==
    \A r \in Reqs :
       (Handled(req[r]) /\ CallerOk(req[r]) /\ RpcShape(req[r].body)) =>
          /\ req[r].status = 400
          /\ req[r].json.kind = "rpcError"
          /\ req[r].outbound = 0
          /\ req[r].up = "none"

C2_Witness ==
    \E r \in Reqs :
       /\ req[r].pc = "returned"
       /\ CallerOk(req[r])
       /\ RpcShape(req[r].body)
       /\ ChatShape(req[r].body)
       /\ req[r].status = 400

\* C3: an authorized request whose body is neither RPC-shaped nor an
\* object with an array `messages` gets a 4xx status and no outbound call.
C3_InvalidRejected ==
    \A r \in Reqs :
       (/\ Handled(req[r]) /\ CallerOk(req[r])
        /\ ~RpcShape(req[r].body) /\ ~ChatShape(req[r].body)) =>
          /\ req[r].status \in 400..499
          /\ req[r].outbound = 0
          /\ req[r].up = "none"

C3_Witness ==
    \E r \in Reqs :
       /\ req[r].pc = "returned"
       /\ CallerOk(req[r])
       /\ req[r].body.obj
       /\ req[r].body.messages = "'hi'"
       /\ req[r].body.jsonrpc = "'1.0'"
       /\ req[r].status = 400

\* C4: in document mode, an upstream answer with non-success status S is
\* passed to the caller with exactly status S and an Error Mapper body.
C4_StatusTransparent ==
    \A r \in Reqs :
       (/\ DocMode(req[r]) /\ req[r].pc = "returned"
        /\ NonSuccess(req[r].upStatus)) =>
          /\ req[r].status = req[r].upStatus
          /\ ErrorSchema(req[r].json)
          /\ req[r].json.details.status = req[r].upStatus

C4_Witness ==
    \E r \in Reqs :
       /\ DocMode(req[r]) /\ req[r].pc = "returned"
       /\ req[r].upStatus = 429
       /\ req[r].status = 429
       /\ req[r].variant = "relay"

\* C5 (as stated): when the non-success upstream body is JSON with a
\* `message` field m, the caller's choices[0].message.content is
\* "Error: " followed by m.
C5_ParsedMessage ==
    \A r \in Reqs :
       (/\ DocMode(req[r]) /\ req[r].pc = "returned"
        /\ NonSuccess(req[r].upStatus)
        /\ req[r].upBody.json
        /\ req[r].upBody.doc.message = "'rate limited'") =>
          /\ req[r].json.kind = "mapped"
          /\ req[r].json.choices[1].message.content = "Error: rate limited"

\* C5 (amended): in document mode the content is "Error: " followed by the
\* raw upstream body text, unparsed, and "Error: Unknown error from
\* upstream" when that text is empty or could not be read.
C5_RawBodyText ==
    \A r \in Reqs :
       (/\ DocMode(req[r]) /\ req[r].pc = "returned"
        /\ NonSuccess(req[r].upStatus)) =>
          /\ req[r].json.kind = "mapped"
          /\ req[r].json.choices[1].message.content =
                IF req[r].upBody.raw # ""
                THEN "Error: " \o req[r].upBody.raw
                ELSE "Error: Unknown error from upstream"

C5_Witness ==
    \E r \in Reqs :
       /\ DocMode(req[r]) /\ req[r].pc = "returned"
       /\ req[r].upStatus = 429
       /\ req[r].upBody.doc.message = "'rate limited'"
       /\ req[r].json.kind = "mapped"
       /\ req[r].json.choices[1].message.content =
             "Error: {\"message\":\"rate limited\"}"

\* C6: in stream mode, once the caller has disconnected during Opening or
\* Relaying the cancellation signal has fired, the relay is Closed (it has
\* returned and the heartbeat is released) and no terminal frame is
\* written to the connection the caller has left.
C6_DisconnectSkipsTerminal ==
    \A r \in Reqs :
       (StreamMode(req[r]) /\ req[r].clientClosed) =>
          /\ req[r].aborted
          /\ req[r].pc = "returned"
          /\ ~req[r].heartbeat
          /\ \A i \in EndFrames(req[r]) : req[r].written[i].conn # "closed"

\* C7: in stream mode, when the upstream stream has opened and then ended,
\* the terminal frame has been written exactly once, to the open
\* connection, after every upstream chunk, and it is the last write before
\* the connection was ended: nothing, a ping included, follows it.
C7_TerminalFrameLast ==
    \A r \in Reqs :
       (req[r].up = "ended") =>
          LET w == req[r].written
              data == {i \in 1..Len(w) : w[i].frame.kind = "data"}
          IN  /\ Len(w) > 0
              /\ w[Len(w)].frame = TerminalFrame
              /\ w[Len(w)].conn = "open"
              /\ Cardinality(EndFrames(req[r])) = 1
              /\ Cardinality(data) = Len(req[r].upLog)
              /\ \A k \in 1..Len(req[r].upLog) :
                    \E i \in data : w[i].frame = req[r].upLog[k]
              /\ req[r].ended

C7_Witness ==
    \E r \in Reqs :
       /\ req[r].up = "ended"
       /\ Len(req[r].upLog) = 2
       /\ req[r].pings >= 1
       /\ req[r].resCloseFired
       /\ req[r].written[Len(req[r].written)].frame = TerminalFrame

\* C8: every outstanding upstream call is bounded by a timeout: a call
\* that is pending does not stay pending forever, even if the upstream
\* never answers.
C8_PendingCallEnds ==
    \A r \in Reqs : (req[r].up = "pending") ~> (req[r].up # "pending")

\* C9: in document mode, a caller disconnect while the upstream call is
\* outstanding aborts that call.
C9_DocDisconnectAborts ==
    \A r \in Reqs :
       (DocMode(req[r]) /\ req[r].clientClosed) =>
          /\ req[r].aborted
          /\ req[r].up \notin {"pending", "headers"}

\* C10: the stream flag of the normalised payload is the boolean true
\* exactly when the caller's stream value was the boolean true, and the
\* boolean false for every other value.
C10_StreamNormalised ==
    \A r \in Reqs :
       (req[r].outbound > 0) =>
          req[r].fwd.stream =
             IF req[r].body.stream = "true" THEN "true" ELSE "false"

Normalise(variant, b) ==
    IF variant = "relay" THEN maybeInjectDefaultModel(b) ELSE sanitizeChatBody(b)

\* C11: whatever the caller's model and stream values were, the payload
\* forwarded upstream has a model that is neither null nor empty, a
\* messages array and a stream that is a boolean.
C11_ForwardedShape ==
    \A r \in Reqs :
       (req[r].outbound > 0) =>
          /\ ~Nullish(req[r].fwd.model) /\ req[r].fwd.model # "''"
          /\ req[r].fwd.messages \in ArrayVals
          /\ req[r].fwd.stream \in {"true", "false"}

\* C12: the request normaliser is idempotent: normalising a payload that
\* has been normalised gives the same payload (same model, messages and
\* stream), for every payload received and for the payload forwarded.
C12_NormaliseIdempotent ==
    \A r \in Reqs :
       /\ (req[r].pc # "absent") =>
             \A v \in Variants :
                Normalise(v, Normalise(v, req[r].body)) = Normalise(v, req[r].body)
       /\ (req[r].outbound > 0) =>
             Normalise(req[r].variant, req[r].fwd) = req[r].fwd

C12_Witness ==
    \E r \in Reqs :
       /\ req[r].outbound > 0
       /\ req[r].body.model = "undefined" /\ req[r].body.stream = "undefined"
       /\ req[r].fwd # req[r].body
       /\ req[r].fwd.model = DEFAULT_MODEL /\ req[r].fwd.stream = "false"

Normalised(s) == s.pc = "returned" /\ s.json.kind = "clean"

\* C13: the response normaliser is total: for every upstream document of
\* a successful reply (an empty object, null, choices that is not an
\* array, choices holding null) the caller gets the normalised document,
\* and for the empty object its choices are the empty sequence.
C13_ResponseNormaliserTotal ==
    \A r \in Reqs :
       (/\ req[r].variant = "gateway" /\ req[r].pc = "returned"
        /\ req[r].up = "done" /\ IsOk(req[r].upStatus)) =>
          /\ req[r].json.kind = "clean"
          /\ (req[r].upBody.json /\ req[r].upBody.doc = EmptyDoc) =>
                req[r].json.choices = << >>

\* C14: the object field of every normalised document is the literal
\* chat.completion, whatever the upstream document carried.
C14_ObjectLiteral ==
    \A r \in Reqs :
       Normalised(req[r]) => req[r].json.object = "'chat.completion'"

\* C15: the content of every normalised choice is a string: a string
\* content is passed as it is and any other content that is present (0,
\* false, null, an object) is replaced by its JSON serialisation, never by
\* the empty string.
C15_ContentSerialised ==
    \A r \in Reqs :
       (Normalised(req[r]) /\ req[r].upBody.json /\ req[r].upBody.doc.choices.arr) =>
          LET raw == req[r].upBody.doc.choices.elems
              out == req[r].json.choices
          IN  /\ Len(out) = Len(raw)
              /\ \A i \in 1..Len(raw) :
                    LET msg == IF ~raw[i].message.nullish THEN raw[i].message
                               ELSE raw[i].delta
                    IN  (~msg.nullish /\ msg.content # "undefined") =>
                           out[i].message.content =
                              IF IsString(msg.content) THEN msg.content
                              ELSE "'" \o msg.content \o "'"

FramesOf(s, kind) == {i \in 1..Len(s.written) : s.written[i].frame.kind = kind}

\* C17: in stream mode, once the upstream has answered with a non-success
\* status (no byte relayed yet) and the relay has returned, the caller's
\* status is still 200 with no document sent, exactly one error frame has
\* been written, carrying the upstream status, it is directly followed by
\* the one terminal frame, and the caller connection has been ended.
C17_NonSuccessInBand ==
    \A r \in Reqs :
       (StreamMode(req[r]) /\ NonSuccess(req[r].upStatus) /\ req[r].pc = "returned") =>
          /\ req[r].status = 200 /\ req[r].json = NoJson
          /\ FramesOf(req[r], "data") = {}
          /\ Cardinality(FramesOf(req[r], "error")) = 1
          /\ Cardinality(EndFrames(req[r])) = 1
          /\ \A i \in FramesOf(req[r], "error") :
                /\ req[r].written[i].frame.status = req[r].upStatus
                /\ i + 1 \in EndFrames(req[r])
          /\ req[r].ended

C17_Witness ==
    \E r \in Reqs :
       /\ StreamMode(req[r]) /\ req[r].upStatus = 429 /\ req[r].pc = "returned"
       /\ ~req[r].clientClosed /\ req[r].pings >= 1
       /\ \E i \in FramesOf(req[r], "error") :
             /\ req[r].written[i].frame.data = "rate limited"
             /\ req[r].written[i + 1].frame = TerminalFrame
       /\ req[r].ended

\* C18: in stream mode, when the upstream call has failed with a
\* transport error (not an abort by the caller) before any byte was
\* relayed, exactly one error frame has been written, it is directly
\* followed by the one terminal frame, and the caller connection has been
\* ended.
C18_FetchErrorTerminated ==
    \A r \in Reqs :
       (StreamMode(req[r]) /\ req[r].up = "failed") =>
          /\ FramesOf(req[r], "data") = {}
          /\ Cardinality(FramesOf(req[r], "error")) = 1
          /\ Cardinality(EndFrames(req[r])) = 1
          /\ \A i \in FramesOf(req[r], "error") : i + 1 \in EndFrames(req[r])
          /\ req[r].ended

\* C19: in stream mode, when the open upstream stream has failed
\* mid-flight, exactly one error frame has been written, it is directly
\* followed by the one terminal frame, the caller connection has been
\* ended, and the chunks relayed before the failure are still among the
\* writes.
C19_StreamErrorTerminated ==
    \A r \in Reqs :
       (StreamMode(req[r]) /\ req[r].up = "errored") =>
          /\ Cardinality(FramesOf(req[r], "error")) = 1
          /\ Cardinality(EndFrames(req[r])) = 1
          /\ \A i \in FramesOf(req[r], "error") : i + 1 \in EndFrames(req[r])
          /\ req[r].ended
          /\ \A k \in 1..Len(req[r].upLog) :
                \E i \in FramesOf(req[r], "data") :
                   req[r].written[i].frame = req[r].upLog[k]

Carries(j, raw) ==
    \/ /\ j.kind = "mapped"
       /\ \/ j.details.message = raw
          \/ j.choices[1].message.content = "Error: " \o raw
    \/ /\ j.kind = "clean"
       /\ \/ "'" \o raw \o "'" \in {j.id, j.object, j.created, j.model}
          \/ \E i \in 1..Len(j.choices) :
                j.choices[i].message.content = "'" \o raw \o "'"

\* C20: in document mode, when the upstream has answered with a success
\* status and a body that is not valid JSON, the document the caller has
\* received carries the raw body text.
C20_RawTextPreserved ==
    \A r \in Reqs :
       (/\ DocMode(req[r]) /\ req[r].pc = "returned" /\ req[r].up = "done"
        /\ IsOk(req[r].upStatus) /\ ~req[r].upBody.json
        /\ req[r].upBody.raw # "") =>
          Carries(req[r].json, req[r].upBody.raw)

RelayClosed(s) == StreamMode(s) /\ s.pc = "returned" /\ s.up # "open"

\* C21: in stream mode, once the relay is Closed by whatever path (the
\* upstream has ended, answered a non-success status, failed, had no body,
\* errored mid-flight, or the caller has gone) and the 'close' of a
\* response it has ended has been delivered, no heartbeat timer is armed.
C21_HeartbeatReleased ==
    \A r \in Reqs :
       (RelayClosed(req[r]) /\ (req[r].ended => req[r].resCloseFired)) =>
          ~req[r].heartbeat

\* C22: in stream mode a ping frame is never written between two chunks
\* of the same upstream event frame: when a ping lies between two relayed
\* chunks, the chunk before it completed its event.
C22_PingBetweenEvents ==
    \A r \in Reqs :
       LET w == req[r].written
       IN  \A j \in FramesOf(req[r], "ping") :
              \A i \in FramesOf(req[r], "data") :
                 (/\ i < j
                  /\ \E k \in FramesOf(req[r], "data") : k > j
                  /\ \A k \in FramesOf(req[r], "data") : ~(i < k /\ k < j)) =>
                    w[i].frame.fin

IsData(w) == w.frame.kind = "data"

Relayed(s) ==
    LET sel == SelectSeq(s.written, IsData)
    IN  [i \in 1..Len(sel) |-> sel[i].frame]

\* C23: in stream mode the writes to the caller, with the relay's own
\* frames (connected, ping, error, terminal) removed, are the chunks the
\* upstream has emitted so far, in the same order and unmodified: a
\* prefix of the upstream stream, and the whole of it once the upstream
\* has ended.
C23_RelayedVerbatim ==
    \A r \in Reqs :
       StreamMode(req[r]) => Relayed(req[r]) = req[r].upLog

C23_Witness ==
    \E r \in Reqs :
       /\ StreamMode(req[r]) /\ req[r].up = "ended"
       /\ Len(req[r].upLog) = 2 /\ ~req[r].upLog[1].fin
       /\ Len(Relayed(req[r])) = 2
       /\ \E j \in FramesOf(req[r], "ping") :
             \E i, k \in FramesOf(req[r], "data") : i < j /\ j < k

NonPing(w) == w.frame.kind # "ping"

\* C24: terminating the caller connection is idempotent: once the relay
\* is Closed with the response ended, no later step (the close handler, a
\* listener) writes another frame of the relay's protocol or changes the
\* relay's state: the response stays ended, the relay stays returned, the
\* upstream outcome and the caller's status stay as they were.
C24_TerminationIdempotent ==
    [][\A r \in Reqs :
          (RelayClosed(req[r]) /\ req[r].ended) =>
             /\ SelectSeq(req'[r].written, NonPing) = SelectSeq(req[r].written, NonPing)
             /\ req'[r].ended /\ req'[r].pc = req[r].pc
             /\ req'[r].up = req[r].up /\ req'[r].status = req[r].status
             /\ req'[r].outbound = req[r].outbound]_vars

C24_Witness ==
    \E r \in Reqs :
       /\ RelayClosed(req[r]) /\ req[r].ended
       /\ req[r].resCloseFired /\ req[r].aborted /\ ~req[r].clientClosed
       /\ req[r].up = "errored"
       /\ Cardinality(FramesOf(req[r], "error")) = 1

\* C25: the cancellation signal of a stream-mode request is one-shot: its
\* first firing leaves no upstream call outstanding or open, and once it
\* has fired no later step (a second disconnect observer included) writes
\* anything, aborts anything or changes the relay's state.
C25_CancelOneShot ==
    [][\A r \in Reqs :
          /\ (StreamMode(req'[r]) /\ req'[r].aborted) =>
                req'[r].up \notin {"pending", "headers", "open"}
          /\ (StreamMode(req[r]) /\ req[r].aborted) =>
                /\ req'[r].aborted
                /\ req'[r].written = req[r].written
                /\ req'[r].up = req[r].up /\ req'[r].pc = req[r].pc
                /\ req'[r].ended = req[r].ended
                /\ req'[r].heartbeat = req[r].heartbeat
                /\ req'[r].outbound = req[r].outbound]_vars

C25_Witness ==
    \E r \in Reqs :
       /\ StreamMode(req[r]) /\ req[r].aborted /\ req[r].up = "aborted"
       /\ req[r].clientClosed /\ req[r].resCloseFired
       /\ Len(req[r].upLog) >= 1

\* C26: every request issues at most one outbound call over its whole
\* lifetime, in both modes: the count of calls never exceeds one, and
\* once a call has been issued no later step (a failure, a non-success
\* status, a stream error) issues another.
C26_SingleOutboundCall ==
    [][\A r \in Reqs :
          /\ req'[r].outbound <= 1
          /\ (req[r].outbound = 1) => req'[r].outbound = 1]_vars

C26_Witness ==
    \E r \in Reqs :
       /\ req[r].outbound = 1 /\ req[r].pc = "returned"
       /\ DocMode(req[r]) /\ req[r].up = "failed" /\ req[r].status = 502

\* C27: the RPC shape is checked before the chat shape: an authorized
\* body that has both shapes is rejected as RPC without being normalised
\* or forwarded, and a body is forwarded exactly when it has the chat
\* shape and not the RPC shape, so no body is treated as both.
C27_RpcPrecedence ==
    \A r \in Reqs :
       (Handled(req[r]) /\ CallerOk(req[r])) =>
          /\ (RpcShape(req[r].body) /\ ChatShape(req[r].body)) =>
                /\ req[r].json.kind = "rpcError"
                /\ req[r].pc = "returned"
                /\ req[r].fwd = NullBody
          /\ (req[r].outbound > 0) <=>
                (ChatShape(req[r].body) /\ ~RpcShape(req[r].body))
          /\ (req[r].json.kind = "rpcError") => req[r].outbound = 0

C27_Witness ==
    \E r \in Reqs :
       /\ req[r].variant = "relay" /\ CallerOk(req[r])
       /\ req[r].body.jsonrpc = "'2.0'" /\ req[r].body.method = "'ping'"
       /\ req[r].body.messages = "[1]" /\ req[r].body.stream = "true"
       /\ req[r].json.kind = "rpcError" /\ req[r].outbound = 0

\* C30: the stream flag forwarded upstream matches the path chosen for
\* the caller: the streaming relay is used exactly when the forwarded
\* stream is the boolean true, the document path exactly when it is the
\* boolean false.
C30_FlagMatchesPath ==
    \A r \in Reqs :
       (req[r].outbound > 0) =>
          /\ StreamMode(req[r]) <=> (req[r].fwd.stream = "true")
          /\ DocMode(req[r]) <=> (req[r].fwd.stream = "false")

\* C28: concurrent requests are independent: a step of one request (its
\* disconnect, abort, heartbeat tick, upstream answer or error) leaves
\* every other request exactly as it was: its upstream call, its
\* heartbeat timer and the frames written to its caller.
C28_RequestsIndependent ==
    [][\A r1 \in Reqs, r2 \in Reqs :
          (r1 # r2 /\ req'[r1] # req[r1]) => req'[r2] = req[r2]]_vars

C28_Witness ==
    /\ StreamMode(req["r1"]) /\ req["r1"].clientClosed /\ req["r1"].aborted
    /\ req["r1"].up = "aborted" /\ ~req["r1"].heartbeat
    /\ StreamMode(req["r2"]) /\ req["r2"].up = "open" /\ req["r2"].heartbeat
    /\ ~req["r2"].aborted /\ Len(req["r2"].upLog) >= 1 /\ req["r2"].pings >= 1

Phase(s) ==
    IF ~StreamMode(s) THEN "none"
    ELSE IF s.up \in {"pending", "headers"} THEN "Opening"
    ELSE IF s.up = "open" THEN "Relaying"
    ELSE "Closed"

Rank(s) ==
    CASE Phase(s) = "none" -> 0
      [] Phase(s) = "Opening" -> 1
      [] Phase(s) = "Relaying" -> 2
      [] Phase(s) = "Closed" -> 4

\* C29: the relay of a stream-mode request only moves forward through
\* Opening, Relaying, Draining, Closed: it enters Opening once, from the
\* handler; the upstream's end of stream (Draining, which the end
\* listener completes in the same run) is only taken from Relaying; no
\* step returns to an earlier state and none leaves Closed.
C29_ForwardOnly ==
    [][\A r \in Reqs :
          /\ Rank(req'[r]) >= Rank(req[r])
          /\ (Rank(req[r]) = 0 /\ Rank(req'[r]) > 0) =>
                (req[r].pc = "start" /\ Rank(req'[r]) = 1)
          /\ (req'[r].up = "ended" /\ req[r].up # "ended") => Rank(req[r]) = 2
          /\ (Rank(req[r]) = 4) => Rank(req'[r]) = 4]_vars

C29_Witness ==
    \E r \in Reqs :
       /\ Phase(req[r]) = "Closed" /\ req[r].up = "ended" /\ req[r].ended
       /\ Len(req[r].upLog) = 1 /\ req[r].pings = 0
       /\ ~req[r].resCloseFired

\* C31: in stream mode every write to the caller connection is made while
\* that connection is open: no ping, error frame or terminal frame is
\* written once the response has been ended or the caller has gone.
C31_NoWriteAfterClose ==
    \A r \in Reqs :
       StreamMode(req[r]) =>
          \A i \in 1..Len(req[r].written) : req[r].written[i].conn = "open"

\* C32: every stream-mode request eventually reaches Closed: its caller
\* connection is ended (or the caller has gone) and its heartbeat is
\* canceled, given an upstream whose call eventually resolves or fails
\* and whose opened stream eventually ends or errors.
C32_EventuallyClosed ==
    \A r \in Reqs :
       StreamMode(req[r]) ~>
          ((req[r].ended \/ req[r].clientClosed) /\ ~req[r].heartbeat)

====
